---------------------------- MODULE Spec2Model ----------------------------
(***************************************************************************)
(* Model of the RSS news endpoint (api/get-news.ts: parseRSS, handler) and *)
(* of the front-end component that consumes it (App / fetchNews).          *)
(*                                                                         *)
(* Text is a sequence of one-character strings, so that the regular        *)
(* expressions, trim, substring and replace of the source act on the same  *)
(* characters as in the program.  An optional value (undefined in the      *)
(* source) is the empty tuple, a present value v is <<v>>.                 *)
(*                                                                         *)
(* The endpoint and the front end are two programs that meet only through  *)
(* HTTP: Spec is the endpoint, invoked any number of times, and AppSpec is *)
(* the front end, whose request is answered by any response the endpoint   *)
(* can send, by a response of something else on the way, or not at all.    *)
(***************************************************************************)
EXTENDS Integers, Sequences, FiniteSets, TLC

(***************************************************************************)
(* Bounds of the model.                                                    *)
(***************************************************************************)
\* Largest number of <item> blocks in a modelled feed.
MaxItems == 2

(***************************************************************************)
(* Optional values.                                                        *)
(***************************************************************************)
Undefined == <<>>

Some(v) == <<v>>

\* JavaScript truthiness of an optional string: neither undefined nor ''.
Truthy(o) == o # Undefined /\ o[1] # <<>>

(***************************************************************************)
(* String primitives of the JavaScript runtime used by parseRSS.           *)
(***************************************************************************)
\* The code units String.prototype.trim removes (WhiteSpace and LineTerminator):
\* U+0009..U+000D, U+0020, U+00A0, U+1680, U+2000..U+200A, U+2028, U+2029, U+202F,
\* U+205F, U+3000 and U+FEFF.  A code unit above U+00FF is written U+<decimal code>.
IsSpace(c) ==
    c \in {"\t", "\n", "", "\f", "\r", " ", " ", "U+5760",
           "U+8192", "U+8193", "U+8194", "U+8195", "U+8196", "U+8197", "U+8198", "U+8199",
           "U+8200", "U+8201", "U+8202", "U+8232", "U+8233", "U+8239", "U+8287", "U+12288",
           "U+65279"}

IsDigit(c) == c \in {"0", "1", "2", "3", "4", "5", "6", "7", "8", "9"}

DigitVal(c) ==
    CASE c = "0" -> 0 [] c = "1" -> 1 [] c = "2" -> 2 [] c = "3" -> 3
      [] c = "4" -> 4 [] c = "5" -> 5 [] c = "6" -> 6 [] c = "7" -> 7
      [] c = "8" -> 8 [] c = "9" -> 9

\* s.startsWith(p)
StartsWith(s, p) == Len(s) >= Len(p) /\ SubSeq(s, 1, Len(p)) = p

\* s.endsWith(p)
EndsWith(s, p) == Len(s) >= Len(p) /\ SubSeq(s, Len(s) - Len(p) + 1, Len(s)) = p

\* Whether the literal p occurs in s at the 1-based position i.
MatchesAt(s, p, i) == i >= 1 /\ i + Len(p) - 1 <= Len(s) /\ SubSeq(s, i, i + Len(p) - 1) = p

\* The least 1-based position >= from at which the literal p occurs in s, or 0.
IndexOf(s, p, from) ==
    LET at == { i \in from..(Len(s) - Len(p) + 1) : MatchesAt(s, p, i) }
    IN  IF at = {} THEN 0 ELSE CHOOSE i \in at : \A j \in at : i <= j

RECURSIVE TrimStart(_)
TrimStart(s) == IF s # <<>> /\ IsSpace(Head(s)) THEN TrimStart(Tail(s)) ELSE s

RECURSIVE TrimEnd(_)
TrimEnd(s) ==
    IF s # <<>> /\ IsSpace(s[Len(s)]) THEN TrimEnd(SubSeq(s, 1, Len(s) - 1)) ELSE s

\* s.trim()
Trim(s) == TrimEnd(TrimStart(s))

Clamp(n, len) == IF n < 0 THEN 0 ELSE IF n > len THEN len ELSE n

\* s.substring(a, b): both indices are clamped to 0..length and swapped when a > b.
Substring(s, a, b) ==
    LET ca == Clamp(a, Len(s))
        cb == Clamp(b, Len(s))
        lo == IF ca <= cb THEN ca ELSE cb
        hi == IF ca <= cb THEN cb ELSE ca
    IN  SubSeq(s, lo + 1, hi)

\* s.replace(/p/g, r) for a literal pattern p: leftmost, non-overlapping, one pass.
RECURSIVE ReplaceAll(_, _, _)
ReplaceAll(s, p, r) ==
    IF s = <<>> THEN <<>>
    ELSE IF MatchesAt(s, p, 1)
         THEN r \o ReplaceAll(SubSeq(s, Len(p) + 1, Len(s)), p, r)
         ELSE <<Head(s)>> \o ReplaceAll(Tail(s), p, r)

(***************************************************************************)
(* Literals of the source.                                                 *)
(***************************************************************************)
ITEM_OPEN == <<"<","i","t","e","m",">">>

ITEM_CLOSE == <<"<","/","i","t","e","m",">">>

TITLE_OPEN == <<"<","t","i","t","l","e",">">>

TITLE_CLOSE == <<"<","/","t","i","t","l","e",">">>

LINK_OPEN == <<"<","l","i","n","k",">">>

LINK_CLOSE == <<"<","/","l","i","n","k",">">>

DESC_OPEN == <<"<","d","e","s","c","r","i","p","t","i","o","n",">">>

DESC_CLOSE == <<"<","/","d","e","s","c","r","i","p","t","i","o","n",">">>

PUB_OPEN == <<"<","p","u","b","D","a","t","e",">">>

PUB_CLOSE == <<"<","/","p","u","b","D","a","t","e",">">>

CDATA_OPEN == <<"<","!","[","C","D","A","T","A","[">>

CDATA_CLOSE == <<"]","]",">">>

THUMB_URL == <<"<","m","e","d","i","a",":","t","h","u","m","b","n","a","i","l"," ","u","r","l","=","\"">>

QUOTE == <<"\"">>


(***************************************************************************)
(* Regular expressions of parseRSS.                                        *)
(***************************************************************************)
\* /open([\s\S]*?)close/ applied to s from the 1-based position from: the leftmost
\* occurrence of open that is followed by close, the lazy group ending at the first
\* close after it.  Undefined when there is no match; otherwise the captured group and
\* the 0-based index just past the match (the lastIndex of a global regular expression).
Match(s, open, close, from) ==
    LET i == IndexOf(s, open, from)
        j == IF i = 0 THEN 0 ELSE IndexOf(s, close, i + Len(open))
    IN  IF i = 0 \/ j = 0 THEN Undefined
        ELSE Some([group |-> SubSeq(s, i + Len(open), j - 1),
                   lastIndex |-> j + Len(close) - 1])

\* The number of decimal digits of s from the 1-based position i on.
RECURSIVE DigitRun(_, _)
DigitRun(s, i) == IF i <= Len(s) /\ IsDigit(s[i]) THEN 1 + DigitRun(s, i + 1) ELSE 0

\* The number of "0" characters of s from the 1-based position i on.
RECURSIVE ZeroRun(_, _)
ZeroRun(s, i) == IF i <= Len(s) /\ s[i] = "0" THEN 1 + ZeroRun(s, i + 1) ELSE 0

\* The code units U+0020..U+007E, in order; the grave accent is written U+96.
ASCII ==
    <<
      " ", "!", "\"", "#", "$", "%", "&", "'", "(", ")", "*", "+", ",", "-", ".", "/", "0",
      "1", "2", "3", "4", "5", "6", "7", "8", "9", ":", ";", "<", "=", ">", "?", "@", "A",
      "B", "C", "D", "E", "F", "G", "H", "I", "J", "K", "L", "M", "N", "O", "P", "Q", "R",
      "S", "T", "U", "V", "W", "X", "Y", "Z", "[", "\\", "]", "^", "_", "U+96", "a", "b", "c",
      "d", "e", "f", "g", "h", "i", "j", "k", "l", "m", "n", "o", "p", "q", "r", "s", "t",
      "u", "v", "w", "x", "y", "z", "{", "|", "}", "~"
    >>

\* The code units U+00A0..U+00FF, in order.
LATIN1 ==
    <<
      " ", "¡", "¢", "£", "¤", "¥", "¦", "§", "¨", "©", "ª", "«", "¬", "­", "®", "¯", "°",
      "±", "²", "³", "´", "µ", "¶", "·", "¸", "¹", "º", "»", "¼", "½", "¾", "¿", "À", "Á",
      "Â", "Ã", "Ä", "Å", "Æ", "Ç", "È", "É", "Ê", "Ë", "Ì", "Í", "Î", "Ï", "Ð", "Ñ", "Ò",
      "Ó", "Ô", "Õ", "Ö", "×", "Ø", "Ù", "Ú", "Û", "Ü", "Ý", "Þ", "ß", "à", "á", "â", "ã",
      "ä", "å", "æ", "ç", "è", "é", "ê", "ë", "ì", "í", "î", "ï", "ð", "ñ", "ò", "ó", "ô",
      "õ", "ö", "÷", "ø", "ù", "ú", "û", "ü", "ý", "þ", "ÿ"
    >>

\* The string of length one that holds the code unit u.  A code unit that is neither
\* a character of the two tables nor one of tab, line feed, vertical tab, form feed
\* and carriage return is written U+<decimal code>.
CodeUnit(u) ==
    CASE u = 9 -> "\t"
      [] u = 10 -> "\n"
      [] u = 11 -> ""
      [] u = 12 -> "\f"
      [] u = 13 -> "\r"
      [] u >= 32 /\ u <= 126 -> ASCII[u - 31]
      [] u >= 160 /\ u <= 255 -> LATIN1[u - 159]
      [] OTHER -> "U+" \o ToString(u)

\* A string of decimal digits without its leading zeros.
RECURSIVE StripZeros(_)
StripZeros(ds) == IF ds # <<>> /\ Head(ds) = "0" THEN StripZeros(Tail(ds)) ELSE ds

\* a <= b for the numbers two strings of decimal digits without leading zeros denote.
DigitsLeq(a, b) ==
    \/ Len(a) < Len(b)
    \/ /\ Len(a) = Len(b)
       /\ \/ a = b
          \/ \E i \in 1..Len(a) :
                /\ DigitVal(a[i]) < DigitVal(b[i])
                /\ \A j \in 1..(i - 1) : a[j] = b[j]

\* The decimal digits of 2^53, 2^54, ..., 2^68.
POW2 ==
    <<
      <<"9","0","0","7","1","9","9","2","5","4","7","4","0","9","9","2">>,
      <<"1","8","0","1","4","3","9","8","5","0","9","4","8","1","9","8","4">>,
      <<"3","6","0","2","8","7","9","7","0","1","8","9","6","3","9","6","8">>,
      <<"7","2","0","5","7","5","9","4","0","3","7","9","2","7","9","3","6">>,
      <<"1","4","4","1","1","5","1","8","8","0","7","5","8","5","5","8","7","2">>,
      <<"2","8","8","2","3","0","3","7","6","1","5","1","7","1","1","7","4","4">>,
      <<"5","7","6","4","6","0","7","5","2","3","0","3","4","2","3","4","8","8">>,
      <<"1","1","5","2","9","2","1","5","0","4","6","0","6","8","4","6","9","7","6">>,
      <<"2","3","0","5","8","4","3","0","0","9","2","1","3","6","9","3","9","5","2">>,
      <<"4","6","1","1","6","8","6","0","1","8","4","2","7","3","8","7","9","0","4">>,
      <<"9","2","2","3","3","7","2","0","3","6","8","5","4","7","7","5","8","0","8">>,
      <<"1","8","4","4","6","7","4","4","0","7","3","7","0","9","5","5","1","6","1","6">>,
      <<"3","6","8","9","3","4","8","8","1","4","7","4","1","9","1","0","3","2","3","2">>,
      <<"7","3","7","8","6","9","7","6","2","9","4","8","3","8","2","0","6","4","6","4">>,
      <<"1","4","7","5","7","3","9","5","2","5","8","9","6","7","6","4","1","2","9","2","8">>,
      <<"2","9","5","1","4","7","9","0","5","1","7","9","3","5","2","8","2","5","8","5","6">>
    >>

\* The number a string of decimal digits denotes, modulo 2^16.
RECURSIVE Low16(_)
Low16(ds) ==
    IF ds = <<>> THEN 0
    ELSE (10 * Low16(SubSeq(ds, 1, Len(ds) - 1)) + DigitVal(ds[Len(ds)])) % 65536

\* The number of binary digits that the number ds denotes has beyond the 53 a Number
\* holds exactly, counted up to 16.
ExcessBits(ds) ==
    Cardinality({ k \in 1..Len(POW2) : DigitsLeq(POW2[k], StripZeros(ds)) })

\* ToUint16(ToNumber(ds)) for a string of decimal digits: the number is rounded to the
\* nearest Number (a double, ties to even) and taken modulo 2^16.  Below 2^53 nothing
\* is rounded; from 2^68 on, infinity included, the result is 0.
ToUint16(ds) ==
    LET k == ExcessBits(ds)
        low == Low16(ds)
        q == low \div (2 ^ k)
        r == low % (2 ^ k)
        half == 2 ^ (k - 1)
        up == r > half \/ (r = half /\ q % 2 = 1)
    IN  IF k = 0 THEN low
        ELSE IF k >= 16 THEN 0
        ELSE ((q + (IF up THEN 1 ELSE 0)) * (2 ^ k)) % 65536

\* String.fromCharCode(dec), dec being the digits the expression captured.
FromCharCode(dec) == CodeUnit(ToUint16(dec))

\* s.replace(/&#(\d+);/g, (match, dec) => String.fromCharCode(dec))
RECURSIVE ReplaceNumeric(_)
ReplaceNumeric(s) ==
    IF s = <<>> THEN <<>>
    ELSE LET n == IF StartsWith(s, <<"&", "#">>) THEN DigitRun(s, 3) ELSE 0
         IN  IF n > 0 /\ Len(s) >= 3 + n /\ s[3 + n] = ";"
             THEN <<FromCharCode(SubSeq(s, 3, 2 + n))>>
                      \o ReplaceNumeric(SubSeq(s, 4 + n, Len(s)))
             ELSE <<Head(s)>> \o ReplaceNumeric(Tail(s))

\* s.replace(/&#0*39;/g, "'")
RECURSIVE ReplaceApos39(_)
ReplaceApos39(s) ==
    IF s = <<>> THEN <<>>
    ELSE LET z == IF StartsWith(s, <<"&", "#">>) THEN ZeroRun(s, 3) ELSE -1
         IN  IF z >= 0 /\ MatchesAt(s, <<"3", "9", ";">>, 3 + z)
             THEN <<"'">> \o ReplaceApos39(SubSeq(s, 6 + z, Len(s)))
             ELSE <<Head(s)>> \o ReplaceApos39(Tail(s))

\* The chain of replacements of decodeEntities, in the order of the source.
DecodeChain(s) ==
    ReplaceApos39(
      ReplaceAll(
        ReplaceAll(
          ReplaceAll(
            ReplaceAll(ReplaceNumeric(s), <<"&","a","m","p",";">>, <<"&">>),
            <<"&","l","t",";">>, <<"<">>),
          <<"&","g","t",";">>, <<">">>),
        <<"&","q","u","o","t",";">>, <<"\"">>))

decodeEntities(encodedString) ==
    IF encodedString = <<>> THEN <<>> ELSE DecodeChain(encodedString)

\* Variant of StripTags for /<[^>]*>?/gm, in which the closing ">" is optional: a "<"
\* without a ">" after it removes the rest of the text.
RECURSIVE StripTags_optionalClose(_)
StripTags_optionalClose(s) ==
    IF s = <<>> THEN <<>>
    ELSE LET j == IF Head(s) = "<" THEN IndexOf(s, <<">">>, 2) ELSE 0
         IN  IF j > 0 THEN StripTags_optionalClose(SubSeq(s, j + 1, Len(s)))
             ELSE IF Head(s) = "<" THEN <<>>
             ELSE <<Head(s)>> \o StripTags_optionalClose(Tail(s))

\* s.replace(/<[^>]*>/gm, ''): each "<" that has a ">" after it is removed together
\* with everything up to and including the first such ">".
RECURSIVE StripTags(_)
StripTags(s) ==
    IF s = <<>> THEN <<>>
    ELSE LET j == IF Head(s) = "<" THEN IndexOf(s, <<">">>, 2) ELSE 0
         IN  IF j > 0 THEN StripTags(SubSeq(s, j + 1, Len(s)))
             ELSE <<Head(s)>> \o StripTags(Tail(s))

(***************************************************************************)
(* The fields parseRSS extracts from one item block (the body of its loop).*)
(***************************************************************************)
rawTitleMatch(itemContent) == Match(itemContent, TITLE_OPEN, TITLE_CLOSE, 1)

\* rawTitleMatch[1].trim(), when the title tag matched and its content is not ''.
rawTitle(itemContent) ==
    LET m == rawTitleMatch(itemContent)
    IN  IF m # Undefined /\ m[1].group # <<>> THEN Some(Trim(m[1].group)) ELSE Undefined

\* The value of title that is handed to decodeEntities: the title text without its
\* CDATA envelope when it both starts and ends with the markers.
encodedTitle(itemContent) ==
    LET r == rawTitle(itemContent)
    IN  IF r = Undefined THEN Undefined
        ELSE IF StartsWith(r[1], CDATA_OPEN) /\ EndsWith(r[1], CDATA_CLOSE)
             THEN Some(Trim(Substring(r[1], 9, Len(r[1]) - 3)))
             ELSE r

title(itemContent) ==
    LET e == encodedTitle(itemContent)
    IN  IF e = Undefined THEN Undefined ELSE Some(decodeEntities(e[1]))

link(itemContent) ==
    LET m == Match(itemContent, LINK_OPEN, LINK_CLOSE, 1)
    IN  IF m = Undefined THEN Undefined ELSE Some(Trim(m[1].group))

descriptionMatch(itemContent) == Match(itemContent, DESC_OPEN, DESC_CLOSE, 1)

\* descriptionMatch ? descriptionMatch[1].trim() : ''
trimmedDescription(itemContent) ==
    LET m == descriptionMatch(itemContent)
    IN  IF m # Undefined THEN Trim(m[1].group) ELSE <<>>

\* rawDescription after the CDATA step: nine characters are cut from the front and
\* three from the back whenever the text starts with the opening marker.
rawDescription(itemContent) ==
    LET raw == trimmedDescription(itemContent)
    IN  IF StartsWith(raw, CDATA_OPEN)
        THEN Trim(Substring(raw, 9, Len(raw) - 3))
        ELSE raw

description(itemContent) ==
    LET raw == rawDescription(itemContent)
    IN  IF raw # <<>> THEN Trim(StripTags(decodeEntities(raw))) ELSE <<>>

pubDate(itemContent) ==
    LET m == Match(itemContent, PUB_OPEN, PUB_CLOSE, 1)
    IN  IF m = Undefined THEN Undefined ELSE Some(Trim(m[1].group))

\* Variant of imageUrl that falls back to /<enclosure url="([^"]*)"/.
imageUrl_orEnclosure(itemContent) ==
    LET m == Match(itemContent, THUMB_URL, QUOTE, 1)
        e == Match(itemContent, <<"<","e","n","c","l","o","s","u","r","e">>
                                    \o <<" ","u","r","l","=","\"">>, QUOTE, 1)
    IN  IF m # Undefined THEN Some(m[1].group)
        ELSE IF e # Undefined THEN Some(e[1].group)
        ELSE Undefined

\* itemContent.match(/<media:thumbnail url="([^"]*)"/)?.[1]
imageUrl(itemContent) ==
    LET m == Match(itemContent, THUMB_URL, QUOTE, 1)
    IN  IF m = Undefined THEN Undefined ELSE Some(m[1].group)

\* Variant of Included that only asks pubDate to be defined, so that an empty
\* publication date passes.
Included_definedPubDate(t, l, p) == Truthy(t) /\ Truthy(l) /\ p # Undefined

\* if (title && link && pubDate)
Included(t, l, p) == Truthy(t) /\ Truthy(l) /\ Truthy(p)

\* The local values of one iteration of the loop of parseRSS.
LoopLocals(itemContent) ==
    [itemContent |-> itemContent,
     encodedTitle |-> encodedTitle(itemContent),
     title |-> title(itemContent),
     link |-> link(itemContent),
     rawDescription |-> rawDescription(itemContent),
     description |-> description(itemContent),
     pubDate |-> pubDate(itemContent),
     imageUrl |-> imageUrl(itemContent)]

\* The object pushed onto items: { title, link, description, pubDate, imageUrl }.
NewsItem(l) ==
    [title |-> l.title[1],
     link |-> l.link[1],
     description |-> l.description,
     pubDate |-> l.pubDate[1],
     imageUrl |-> l.imageUrl]

\* The loop of parseRSS from the state (lastIndex, items) on, up to its return value.
RECURSIVE parseRSS_from(_, _, _)
parseRSS_from(xml, li, its) ==
    LET match == Match(xml, ITEM_OPEN, ITEM_CLOSE, li + 1)
    IN  IF match = Undefined THEN its
        ELSE LET l == LoopLocals(match[1].group)
             IN  parseRSS_from(xml, match[1].lastIndex,
                               IF Included(l.title, l.link, l.pubDate)
                               THEN Append(its, NewsItem(l))
                               ELSE its)

\* parseRSS(xml)
parseRSS(xml) == parseRSS_from(xml, 0, <<>>)

(***************************************************************************)
(* Feed texts the upstream may answer with.  A feed is a channel head, up  *)
(* to MaxItems item blocks and a channel tail.  One block of a feed ranges *)
(* over all modelled blocks, the others over CoreBlocks.                   *)
(***************************************************************************)
\* Contents of the title tag.
TitleTexts ==
    {
      <<"A">>,   \* 'A'
      <<" ","A","\n">>,   \* ' A\n'
      <<"A"," ","&","a","m","p",";"," ","A">>,   \* 'A &amp; A'
      <<"<","!","[","C","D","A","T","A","[","A","]","]",">">>,   \* '<![CDATA[A]]>'
      <<"<","!","[","C","D","A","T","A","["," ","A"," ","]","]",">">>,   \* '<![CDATA[ A ]]>'
      <<"<","!","[","C","D","A","T","A","[","]","]",">">>,   \* '<![CDATA[]]>'
      <<"<","!","[","C","D","A","T","A","[","A">>,   \* '<![CDATA[A'
      <<"<","!","[","C","D","A","T","A","[","&","a","m","p",";","l","t",";","]","]",">">>,   \* '<![CDATA[&amp;lt;]]>'
      <<"&","a","m","p",";","a","m","p",";">>,   \* '&amp;amp;'
      <<"&","a","m","p",";","l","t",";">>,   \* '&amp;lt;'
      <<"&","a","m","p",";","#","3","9",";">>,   \* '&amp;#39;'
      <<"&","#","3","8",";","#","3","9",";">>,   \* '&#38;#39;'
      <<"&","a","p","o","s",";">>,   \* '&apos;'
      <<"&","#","3","9",";">>,   \* '&#39;'
      <<"&","#","0","0","3","9",";">>,   \* '&#0039;'
      <<"&","#","x","2","7",";">>,   \* '&#x27;'
      <<"&","l","t",";","A","&","g","t",";">>,   \* '&lt;A&gt;'
      <<"&","q","u","o","t",";","A","&","q","u","o","t",";">>,   \* '&quot;A&quot;'
      <<"&","#","6","5",";">>,   \* '&#65;'
      <<"&","#","6","5","6","0","1",";">>,   \* '&#65601;'
      <<"&","#","8","2","1","7",";">>,   \* '&#8217;'
      <<"&","#",";">>,   \* '&#;'
      <<"&","l","t">>,   \* '&lt'
      <<"A","\r">>,   \* 'A\r'
      <<"&","a","m","p","&","#","5","9",";">>,   \* '&amp&#59;'
      <<"&","#","4","2","9","4","9","6","7","3","6","1",";">>,   \* '&#4294967361;'
      <<"&","#","9","0","0","7","1","9","9","2","5","4","7","4","0","9","9","3",";">>    \* '&#9007199254740993;'
    }

\* Contents of the description tag.
DescriptionTexts ==
    {
      <<"D">>,   \* 'D'
      <<"<","b",">","b","o","l","d","<","/","b",">"," ","t","e","x","t">>,   \* '<b>bold</b> text'
      <<"&","l","t",";","p","&","g","t",";","H","i","&","l","t",";","/","p","&","g","t",";">>,   \* '&lt;p&gt;Hi&lt;/p&gt;'
      <<"a"," ","<"," ","b">>,   \* 'a < b'
      <<"x"," ",">"," ","y">>,   \* 'x > y'
      <<"<","a","<","b",">","c">>,   \* '<a<b>c'
      <<"<","b",">"," ","b","o","l","d","<","/","b",">">>,   \* '<b> bold</b>'
      <<"<","b","r">>,   \* '<br'
      <<"a"," ","<"," ","b"," ","<","i",">","c","<","/","i",">">>,   \* 'a < b <i>c</i>'
      <<"<","!","[","C","D","A","T","A","[","D","]","]",">">>,   \* '<![CDATA[D]]>'
      <<"<","!","[","C","D","A","T","A","[","<","p",">","H","i","<","/","p",">","]","]",">">>,   \* '<![CDATA[<p>Hi</p>]]>'
      <<"<","!","[","C","D","A","T","A","["," ","D"," ","]","]",">">>,   \* '<![CDATA[ D ]]>'
      <<"<","!","[","C","D","A","T","A","[","H","e","l","l","o">>,   \* '<![CDATA[Hello'
      <<"<","!","[","C","D","A","T","A","[">>,   \* '<![CDATA['
      <<"<","!","[","C","D","A","T","A","[","a","b">>,   \* '<![CDATA[ab'
      <<"&","a","m","p",";","l","t",";","b","&","a","m","p",";","g","t",";">>,   \* '&amp;lt;b&amp;gt;'
      <<"&","a","p","o","s",";","D","&","a","p","o","s",";">>,   \* '&apos;D&apos;'
      <<"&","#","6","0",";","b","&","#","6","2",";","D">>,   \* '&#60;b&#62;D'
      <<"&","#","3","2",";","D","&","#","1","6","0",";">>,   \* '&#32;D&#160;'
      <<"D","\r","\n">>    \* 'D\r\n'
    }

\* Image tags of an item block, in the two conventions the feeds use.
ImageTags ==
    {
      <<"<","m","e","d","i","a",":","t","h","u","m","b","n","a","i","l"," ","u","r","l","=","\"","i","1","\"","/",">">>,   \* '<media:thumbnail url="i1"/>'
      <<"<","e","n","c","l","o","s","u","r","e"," ","u","r","l","=","\"","i","2","\"","/",">">>,   \* '<enclosure url="i2"/>'
      <<"<","m","e","d","i","a",":","t","h","u","m","b","n","a","i","l"," ","u","r","l","=","\"","i","1","\"","/",">","<","e","n","c","l","o","s","u","r","e"," ","u","r","l","=","\"","i","2","\"","/",">">>,   \* '<media:thumbnail url="i1"/><enclosure url="i2"/>'
      <<"<","m","e","d","i","a",":","t","h","u","m","b","n","a","i","l"," ","w","i","d","t","h","=","\"","1","\""," ","u","r","l","=","\"","i","3","\"","/",">">>,   \* '<media:thumbnail width="1" url="i3"/>'
      <<"<","m","e","d","i","a",":","t","h","u","m","b","n","a","i","l"," ","u","r","l","=","\"","i","1">>,   \* '<media:thumbnail url="i1'
      <<"<","m","e","d","i","a",":","t","h","u","m","b","n","a","i","l"," ","u","r","l","=","\"","\"","/",">">>,   \* '<media:thumbnail url=""/>'
      <<"<","e","n","c","l","o","s","u","r","e"," ","u","r","l","=","\"","i","2","\""," ","t","y","p","e","=","\"","i","m","a","g","e","/","j","p","e","g","\"","/",">">>    \* '<enclosure url="i2" type="image/jpeg"/>'
    }

\* 'http://x/1'
LINK == <<"h","t","t","p",":","/","/","x","/","1">>

\* 'd1'
PUBDATE == <<"d","1">>

\* 'Mon, 01 Jan 2024 00:00:00 GMT'
EXAMPLE_PUBDATE == <<"M","o","n",","," ","0","1"," ","J","a","n"," ","2","0","2","4"," ","0","0",":","0","0",":","0","0"," ","G","M","T">>

\* 'Test'
EXAMPLE_TITLE == <<"T","e","s","t">>

\* '&lt;p&gt;Hi&lt;/p&gt;'
EXAMPLE_DESCRIPTION == <<"&","l","t",";","p","&","g","t",";","H","i","&","l","t",";","/","p","&","g","t",";">>

\* '<channel><title>F</title>'
FEED_HEAD == <<"<","c","h","a","n","n","e","l",">","<","t","i","t","l","e",">","F","<","/","t","i","t","l","e",">">>

\* '</channel>'
FEED_TAIL == <<"<","/","c","h","a","n","n","e","l",">">>

TitleTag(t) == TITLE_OPEN \o t \o TITLE_CLOSE

LinkTag(l) == LINK_OPEN \o l \o LINK_CLOSE

DescriptionTag(d) == DESC_OPEN \o d \o DESC_CLOSE

PubDateTag(d) == PUB_OPEN \o d \o PUB_CLOSE

ItemBlock(body) == ITEM_OPEN \o body \o ITEM_CLOSE

\* A link and a publication date that parseRSS accepts.
GoodFields == LinkTag(LINK) \o <<"\n">> \o PubDateTag(PUBDATE)

\* Blocks in which each of title, link and pubDate is missing, empty, blank or present.
PresenceBlocks ==
    { ItemBlock(t \o l \o p) :
        t \in {<<>>, TitleTag(<<>>), TitleTag(<<" ">>), TitleTag(<<"A">>)},
        l \in {<<>>, LinkTag(<<" ">>), LinkTag(LINK)},
        p \in {<<>>, PubDateTag(<<>>), PubDateTag(PUBDATE)} }

TitleBlocks ==
    { ItemBlock(TitleTag(t) \o GoodFields \o DescriptionTag(<<"D">>)) : t \in TitleTexts }

DescriptionBlocks ==
    { ItemBlock(TitleTag(<<"A">>) \o GoodFields \o DescriptionTag(d)) :
        d \in DescriptionTexts \cup {<<>>, <<" ">>} }

ImageBlocks ==
    { ItemBlock(TitleTag(<<"A">>) \o GoodFields \o img) : img \in ImageTags }

\* The item of the end-to-end example.
ExampleBlock ==
    ItemBlock(TitleTag(EXAMPLE_TITLE) \o LinkTag(LINK) \o PubDateTag(EXAMPLE_PUBDATE)
                \o DescriptionTag(EXAMPLE_DESCRIPTION))

\* An item block that is never closed: the expression for items then runs on to the
\* closing tag of the next block.
UnclosedBlock == ITEM_OPEN \o TitleTag(<<"A">>) \o GoodFields

CoreBlocks ==
    { ItemBlock(TitleTag(<<"A">>) \o GoodFields \o DescriptionTag(<<"D">>)
                  \o THUMB_URL \o <<"i","1","\"","/",">">>),
      ItemBlock(GoodFields) }

Blocks ==
    PresenceBlocks \cup TitleBlocks \cup DescriptionBlocks \cup ImageBlocks
        \cup {ExampleBlock, UnclosedBlock} \cup CoreBlocks

\* Sequences of at most MaxItems blocks with at most one block outside CoreBlocks.
FeedShapes ==
    {<<>>} \cup
    UNION { { [i \in 1..n |-> IF i = pos THEN b ELSE rest[i]] :
                pos \in 1..n, b \in Blocks, rest \in [1..n -> CoreBlocks] } :
            n \in 1..MaxItems }

RECURSIVE Flatten(_)
Flatten(ss) == IF ss = <<>> THEN <<>> ELSE Head(ss) \o Flatten(Tail(ss))

FeedTexts == { FEED_HEAD \o Flatten(sh) \o FEED_TAIL : sh \in FeedShapes }

(***************************************************************************)
(* The answers of the upstream feed server to the one GET of handler.      *)
(***************************************************************************)
\* response.ok
IsOk(status) == status >= 200 /\ status <= 299

\* fetch rejects: the request could not be completed at all.
UpstreamRejections ==
    { [rejected |-> TRUE, message |-> <<"fetch failed">>, status |-> 0,
       statusText |-> "", bodyOk |-> FALSE, text |-> <<>>] }

\* A 2xx response whose body is a feed text.
UpstreamFeeds ==
    { [rejected |-> FALSE, message |-> <<>>, status |-> 200, statusText |-> "OK",
       bodyOk |-> TRUE, text |-> f] : f \in FeedTexts }

\* A 2xx response whose body cannot be read: response.text() rejects.
UpstreamBrokenBodies ==
    { [rejected |-> FALSE, message |-> <<"terminated">>, status |-> 200,
       statusText |-> "OK", bodyOk |-> FALSE, text |-> <<>>] }

\* Non-2xx responses; their body may even be a feed.
UpstreamFailures ==
    { [rejected |-> FALSE, message |-> <<>>, status |-> st[1], statusText |-> st[2],
       bodyOk |-> TRUE, text |-> t] :
        st \in {<<503, "Service Unavailable">>, <<404, "Not Found">>, <<304, "Not Modified">>},
        t \in {<<>>, FEED_HEAD \o ExampleBlock \o FEED_TAIL} }

UpstreamOutcomes ==
    UpstreamRejections \cup UpstreamFeeds \cup UpstreamBrokenBodies \cup UpstreamFailures

(***************************************************************************)
(* State.                                                                  *)
(***************************************************************************)
VARIABLES
    hpc,        \* position of the invocation of handler that is under way or was last:
                \*   idle, fetch, awaitFetch, checkOk, text, parse, setHeaders, send,
                \*   catch, done
    upstream,   \* what the fetch of RSS_URL settled with (Undefined before it)
    fetches,    \* number of calls of fetch(RSS_URL) the invocation has made
    parseCalls, \* number of calls of parseRSS the invocation has made
    caught,     \* the value thrown inside the try block of handler (Undefined if none)
    xmlText,    \* const xmlText (Undefined before response.text() resolves)
    lastIndex,  \* itemRegex.lastIndex
    items,      \* const items of parseRSS
    locals,     \* the locals of the last iteration of the loop of parseRSS
    newsItems,  \* const newsItems (Undefined before parseRSS returns)
    headers,    \* headers set on res: a set of <<name, value>>
    sent,       \* the responses res has sent, in order
    apc,        \* position of App / fetchNews: mount, fetching, checkOk, finally, settled
    response,   \* const response of fetchNews (Undefined before fetch resolves)
    news,       \* state news of App
    loading,    \* state loading of App
    error       \* state error of App (Undefined for null)

hvars == <<hpc, upstream, fetches, parseCalls, caught, xmlText, lastIndex, items, locals,
           newsItems, headers, sent>>

avars == <<apc, response, news, loading, error>>

vars == <<hpc, upstream, fetches, parseCalls, caught, xmlText, lastIndex, items, locals,
          newsItems, headers, sent, apc, response, news, loading, error>>

Init ==
    /\ hpc = "idle"
    /\ upstream = Undefined
    /\ fetches = 0
    /\ parseCalls = 0
    /\ caught = Undefined
    /\ xmlText = Undefined
    /\ lastIndex = 0
    /\ items = <<>>
    /\ locals = Undefined
    /\ newsItems = Undefined
    /\ headers = {}
    /\ sent = <<>>
    /\ apc = "mount"
    /\ response = Undefined
    /\ news = <<>>
    /\ loading = TRUE
    /\ error = Undefined

(***************************************************************************)
(* handler.  Every value of an invocation is local to it (req, res, the    *)
(* constants of the try block, the locals of parseRSS), so invocations do  *)
(* not act on each other; the variables hold one invocation, and the next  *)
(* one starts from fresh values.                                           *)
(***************************************************************************)
\* new Error(message)
Error(message) == [isError |-> TRUE, message |-> message]

\* res.setHeader(name, value)
SetHeader(hs, name, value) == {h \in hs : h[1] # name} \cup {<<name, value>>}

\* handler(req, res) is called for a request, whoever sent it: the try block is entered
\* with a res that has no header and has sent nothing.
handler_invoke ==
    /\ hpc \in {"idle", "done"}
    /\ hpc' = "fetch"
    /\ upstream' = Undefined
    /\ fetches' = 0
    /\ parseCalls' = 0
    /\ caught' = Undefined
    /\ xmlText' = Undefined
    /\ lastIndex' = 0
    /\ items' = <<>>
    /\ locals' = Undefined
    /\ newsItems' = Undefined
    /\ headers' = {}
    /\ sent' = <<>>
    /\ UNCHANGED avars

\* fetch(RSS_URL, ...) is called; handler is suspended at the await.
handler_fetch ==
    /\ hpc = "fetch"
    /\ fetches' = fetches + 1
    /\ hpc' = "awaitFetch"
    /\ UNCHANGED <<upstream, parseCalls, caught, xmlText, lastIndex, items, locals,
                   newsItems, headers, sent>>
    /\ UNCHANGED avars

\* The promise of fetch settles and handler resumes: const response = await ... , or the
\* rejection is thrown into the catch block.
handler_fetch_settles ==
    /\ hpc = "awaitFetch"
    /\ \E o \in UpstreamOutcomes :
        /\ upstream' = Some(o)
        /\ IF o.rejected
           THEN hpc' = "catch" /\ caught' = Some(Error(o.message))
           ELSE hpc' = "checkOk" /\ caught' = caught
    /\ UNCHANGED <<fetches, parseCalls, xmlText, lastIndex, items, locals, newsItems,
                   headers, sent>>
    /\ UNCHANGED avars

\* Variant of handler_checkOk without the test of response.ok.
handler_checkOk_unchecked ==
    /\ hpc = "checkOk"
    /\ hpc' = "text"
    /\ UNCHANGED <<upstream, fetches, parseCalls, caught, xmlText, lastIndex, items, locals,
                   newsItems, headers, sent>>
    /\ UNCHANGED <<apc, response, news, loading, error>>

\* if (!response.ok) throw new Error(`Failed to fetch RSS feed: ${status} ${statusText}`)
handler_checkOk ==
    /\ hpc = "checkOk"
    /\ IF ~IsOk(upstream[1].status)
       THEN /\ hpc' = "catch"
            /\ caught' = Some(Error(<<"Failed to fetch RSS feed: ",
                                      ToString(upstream[1].status), " ",
                                      upstream[1].statusText>>))
       ELSE hpc' = "text" /\ caught' = caught
    /\ UNCHANGED <<upstream, fetches, parseCalls, xmlText, lastIndex, items, locals,
                   newsItems, headers, sent>>
    /\ UNCHANGED avars

\* const xmlText = await response.text(); then parseRSS(xmlText) is entered.
handler_text ==
    /\ hpc = "text"
    /\ IF upstream[1].bodyOk
       THEN /\ xmlText' = Some(upstream[1].text)
            /\ hpc' = "parse"
            /\ parseCalls' = parseCalls + 1
            /\ items' = <<>>
            /\ lastIndex' = 0
            /\ caught' = caught
       ELSE /\ hpc' = "catch"
            /\ caught' = Some(Error(upstream[1].message))
            /\ UNCHANGED <<xmlText, parseCalls, items, lastIndex>>
    /\ UNCHANGED <<upstream, fetches, locals, newsItems, headers, sent>>
    /\ UNCHANGED avars

\* One evaluation of the loop condition of parseRSS and, when itemRegex matches, one
\* iteration of the loop; when it does not match, parseRSS returns items.
parseRSS_loop ==
    /\ hpc = "parse"
    /\ LET match == Match(xmlText[1], ITEM_OPEN, ITEM_CLOSE, lastIndex + 1)
       IN  IF match = Undefined
           THEN /\ lastIndex' = 0
                /\ newsItems' = Some(items)
                /\ hpc' = "setHeaders"
                /\ UNCHANGED <<items, locals>>
           ELSE LET l == LoopLocals(match[1].group)
                IN  /\ lastIndex' = match[1].lastIndex
                    /\ locals' = Some(l)
                    /\ items' = IF Included(l.title, l.link, l.pubDate)
                                THEN Append(items, NewsItem(l))
                                ELSE items
                    /\ UNCHANGED <<newsItems, hpc>>
    /\ UNCHANGED <<upstream, fetches, parseCalls, caught, xmlText, headers, sent>>
    /\ UNCHANGED avars

\* Variant of handler_setHeaders that sets the cache directive only.
handler_setHeaders_cacheOnly ==
    /\ hpc = "setHeaders"
    /\ headers' = SetHeader(headers, "Cache-Control",
                            "s-maxage=60, stale-while-revalidate=600")
    /\ hpc' = "send"
    /\ UNCHANGED <<upstream, fetches, parseCalls, caught, xmlText, lastIndex, items, locals,
                   newsItems, sent>>
    /\ UNCHANGED <<apc, response, news, loading, error>>

\* The two calls of res.setHeader.
handler_setHeaders ==
    /\ hpc = "setHeaders"
    /\ headers' = SetHeader(SetHeader(headers, "Cache-Control",
                                      "s-maxage=60, stale-while-revalidate=600"),
                            "Access-Control-Allow-Origin", "*")
    /\ hpc' = "send"
    /\ UNCHANGED <<upstream, fetches, parseCalls, caught, xmlText, lastIndex, items, locals,
                   newsItems, sent>>
    /\ UNCHANGED avars

\* Variant of handler_send200 in which an exception after the response was sent
\* reaches the catch block.
handler_send200_thenThrows ==
    /\ hpc = "send"
    /\ sent' = Append(sent, [status |-> 200, headers |-> headers,
                             body |-> [array |-> newsItems[1]]])
    /\ hpc' = "catch"
    /\ caught' = Some(Error(<<"write after end">>))
    /\ UNCHANGED <<upstream, fetches, parseCalls, xmlText, lastIndex, items, locals,
                   newsItems, headers>>
    /\ UNCHANGED <<apc, response, news, loading, error>>

\* res.status(200).json(newsItems)
handler_send200 ==
    /\ hpc = "send"
    /\ sent' = Append(sent, [status |-> 200, headers |-> headers,
                             body |-> [array |-> newsItems[1]]])
    /\ hpc' = "done"
    /\ UNCHANGED <<upstream, fetches, parseCalls, caught, xmlText, lastIndex, items, locals,
                   newsItems, headers>>
    /\ UNCHANGED avars

\* catch (error) { ...; res.status(500).json({ error: ..., details: errorMessage }) }
handler_catch ==
    /\ hpc = "catch"
    /\ LET errorMessage == IF caught[1].isError THEN caught[1].message
                           ELSE <<"An unknown error occurred">>
       IN  sent' = Append(sent, [status |-> 500, headers |-> headers,
                                 body |-> [error |-> "Failed to fetch or parse RSS feed",
                                           details |-> errorMessage]])
    /\ hpc' = "done"
    /\ UNCHANGED <<upstream, fetches, parseCalls, caught, xmlText, lastIndex, items, locals,
                   newsItems, headers>>
    /\ UNCHANGED avars

Next ==
    \/ handler_invoke
    \/ handler_fetch
    \/ handler_fetch_settles
    \/ handler_checkOk
    \/ handler_text
    \/ parseRSS_loop
    \/ handler_setHeaders
    \/ handler_send200
    \/ handler_catch

Spec == Init /\ [][Next]_vars

\* The response an invocation of handler sends when the upstream answers o: the path
\* through handler that o selects, from the call of fetch to res.json.
handler_response(o) ==
    LET failure(message) ==
            [status |-> 500, headers |-> {},
             body |-> [error |-> "Failed to fetch or parse RSS feed", details |-> message]]
    IN  IF o.rejected THEN failure(o.message)
        ELSE IF ~IsOk(o.status)
             THEN failure(<<"Failed to fetch RSS feed: ", ToString(o.status), " ",
                            o.statusText>>)
        ELSE IF ~o.bodyOk THEN failure(o.message)
        ELSE [status |-> 200,
              headers |-> SetHeader(SetHeader({}, "Cache-Control",
                                              "s-maxage=60, stale-while-revalidate=600"),
                                    "Access-Control-Allow-Origin", "*"),
              body |-> [array |-> parseRSS(o.text)]]

(***************************************************************************)
(* App / fetchNews.                                                        *)
(***************************************************************************)
\* The reason phrase of the statuses handler answers with.
StatusText(status) == IF status = 200 THEN "OK" ELSE "Internal Server Error"

\* The response r of handler as fetch('/api/get-news') resolves with it.  The body is
\* JSON: an array of items, written [array |-> items], or the error object.
Fetched(r) ==
    [status |-> r.status, statusText |-> StatusText(r.status), json |-> Some(r.body)]

\* Answers to fetch('/api/get-news') that do not come from handler: error pages of a
\* gateway whose body is not JSON, is JSON without details, or is the JSON null, and
\* answers with a 2xx status whose body is not JSON, is empty or blank, or is a JSON
\* object.  A body that is not JSON is kept as its text; the texts are shorter and
\* longer than the 21 code units from which V8 abridges the text in its message, with
\* the "<" at the start, in the middle and near the end.
ForeignResponses ==
    {
      [status |-> 504, statusText |-> "Gateway Timeout", json |-> Undefined,
       body |-> <<"<","!","D","O","C","T","Y","P","E"," ","h","t","m","l",">","<","h","t","m","l",">","5","0","4","<","/","h","t","m","l",">">>],
      [status |-> 502, statusText |-> "Bad Gateway",
       json |-> Some([message |-> <<"upstream unavailable">>])],
      [status |-> 500, statusText |-> "Internal Server Error", json |-> Some([null |-> TRUE])],
      [status |-> 200, statusText |-> "OK", json |-> Undefined,
       body |-> <<"<","h","t","m","l",">","2","0","0","<","/","h","t","m","l",">">>],
      [status |-> 200, statusText |-> "OK", json |-> Undefined,
       body |-> <<"<","!","D","O","C","T","Y","P","E"," ","h","t","m","l",">","<","h","t","m","l",">","2","0","0","<","/","h","t","m","l",">">>],
      [status |-> 200, statusText |-> "OK", json |-> Undefined,
       body |-> <<"\r","\n"," "," ","<","h","t","m","l",">","<","b","o","d","y",">","N","o","t"," ","J","S","O","N","<","/","b","o","d","y",">","<","/","h","t","m","l",">">>],
      [status |-> 200, statusText |-> "OK", json |-> Undefined,
       body |-> <<" "," "," "," "," "," "," "," "," "," "," "," ","<","h","t","m","l",">","2","0","0","<","/","h","t","m","l",">">>],
      [status |-> 200, statusText |-> "OK", json |-> Undefined,
       body |-> <<"\n"," "," "," "," "," "," "," "," "," "," "," "," "," "," ","<","h","t","m","l",">">>],
      [status |-> 200, statusText |-> "OK", json |-> Undefined,
       body |-> <<>>],
      [status |-> 200, statusText |-> "OK", json |-> Undefined,
       body |-> <<" ","\n">>],
      [status |-> 204, statusText |-> "No Content", json |-> Undefined,
       body |-> <<>>],
      [status |-> 200, statusText |-> "OK", json |-> Some([message |-> <<"hello">>])]
    }

\* The white space of JSON.
IsJsonSpace(c) == c \in {" ", "\t", "\n", "\r"}

\* The number of JSON white space characters of s from the 1-based position i on.
RECURSIVE JsonSpaceRun(_, _)
JsonSpaceRun(s, i) ==
    IF i <= Len(s) /\ IsJsonSpace(s[i]) THEN 1 + JsonSpaceRun(s, i + 1) ELSE 0

\* The messages of the SyntaxError response.json() rejects with, for a body that is
\* JSON white space only or JSON white space followed by a character no JSON value
\* starts with ("<").  The wording is the engine's, so fetchNews may see any of them:
\*   V8: the whole text when it is shorter than 21 code units, else the 10 code units
\*     before and after the position of the character, with ... where text was left out;
\*   older V8: the character and its 0-based position;
\*   SpiderMonkey: the line and the column of the character;
\*   JavaScriptCore: the character.
JsonSyntaxErrors(body) ==
    LET len == Len(body)
        pos == JsonSpaceRun(body, 1)
        breaks == { i \in 1..pos :
                      body[i] = "\n" \/ (body[i] = "\r" /\ ~(i < len /\ body[i + 1] = "\n")) }
        ends == { i \in 1..pos : body[i] \in {"\n", "\r"} }
        lastEnd == IF ends = {} THEN 0 ELSE CHOOSE i \in ends : \A k \in ends : k <= i
        place == <<" at line ", ToString(1 + Cardinality(breaks)), " column ",
                   ToString(pos + 1 - lastEnd), " of the JSON data">>
        context ==
            IF len < 21 THEN <<"\"">> \o body \o <<"\"">>
            ELSE IF pos < 10 THEN <<"\"">> \o SubSeq(body, 1, pos + 10) \o <<"\"...">>
            ELSE IF pos < len - 10
                 THEN <<"...\"">> \o SubSeq(body, pos - 9, pos + 10) \o <<"\"...">>
            ELSE <<"...\"">> \o SubSeq(body, pos - 9, len) \o <<"\"">>
    IN  IF pos = len
        THEN { <<"Unexpected end of JSON input">>,
               <<"JSON.parse: unexpected end of data">> \o place,
               <<"JSON Parse error: Unexpected EOF">> }
        ELSE { <<"Unexpected token '", body[pos + 1], "', ">> \o context
                   \o <<" is not valid JSON">>,
               <<"Unexpected token ", body[pos + 1], " in JSON at position ", ToString(pos)>>,
               <<"JSON.parse: unexpected character">> \o place,
               <<"JSON Parse error: Unrecognized token '", body[pos + 1], "'">> }

\* The messages of the TypeError that reading errorData.details throws when errorData
\* is null, in the wording of the same engines.
NullReadErrors ==
    { <<"Cannot read properties of null (reading 'details')">>,
      <<"Cannot read property 'details' of null">>,
      <<"errorData is null">>,
      <<"null is not an object (evaluating 'errorData.details')">> }

\* The values await fetch('/api/get-news') rejects with: the TypeError of a browser or
\* of the runtime when the request fails, and a value that is not an Error.
FetchRejections ==
    { Error(<<"Failed to fetch">>),
      Error(<<"NetworkError when attempting to fetch resource.">>),
      Error(<<"fetch failed">>),
      [isError |-> FALSE, message |-> <<"x">>] }

\* The text the catch block of fetchNews hands to setError for the caught value err.
CatchMessage(err) ==
    IF err.isError THEN err.message
    ELSE <<"An unexpected error occurred while fetching news.">>

\* The value response.json() resolves with, for a body j that is JSON.
JsonValue(j) == IF DOMAIN j = {"array"} THEN j.array ELSE j

\* useEffect runs fetchNews: setLoading(true); setError(null); fetch is called.
fetchNews_start ==
    /\ apc = "mount"
    /\ loading' = TRUE
    /\ error' = Undefined
    /\ apc' = "fetching"
    /\ UNCHANGED <<response, news>>
    /\ UNCHANGED hvars

\* await fetch('/api/get-news') resolves, with a response of handler or a foreign one.
fetchNews_response ==
    /\ apc = "fetching"
    /\ \/ \E o \in UpstreamOutcomes : response' = Some(Fetched(handler_response(o)))
       \/ \E r \in ForeignResponses : response' = Some(r)
    /\ apc' = "checkOk"
    /\ UNCHANGED <<news, loading, error>>
    /\ UNCHANGED hvars

\* await fetch('/api/get-news') rejects; the catch block calls setError.
fetchNews_rejected ==
    /\ apc = "fetching"
    /\ \E err \in FetchRejections : error' = Some(CatchMessage(err))
    /\ apc' = "finally"
    /\ UNCHANGED <<response, news, loading>>
    /\ UNCHANGED hvars

\* if (!response.ok) { errorData = await response.json().catch(...); throw ... } and
\* the catch block.  Reading details of the JSON null throws a TypeError instead.
fetchNews_notOk ==
    /\ apc = "checkOk"
    /\ ~IsOk(response[1].status)
    /\ LET errorData == IF response[1].json = Undefined
                        THEN [details |-> <<"Could not parse error response.">>]
                        ELSE response[1].json[1]
           details == IF "details" \in DOMAIN errorData THEN errorData.details ELSE <<>>
           thrown == IF DOMAIN errorData = {"null"}
                     THEN { Error(m) : m \in NullReadErrors }
                     ELSE { Error(<<"API Error: ", ToString(response[1].status), " - ">>
                                    \o (IF details # <<>> THEN details
                                        ELSE <<response[1].statusText>>)) }
       IN  \E err \in thrown : error' = Some(CatchMessage(err))
    /\ apc' = "finally"
    /\ UNCHANGED <<response, news, loading>>
    /\ UNCHANGED hvars

\* const data = await response.json(); setNews(data); a body that is not JSON makes
\* response.json() reject with a SyntaxError, whose message the catch block hands to
\* setError.
fetchNews_ok ==
    /\ apc = "checkOk"
    /\ IsOk(response[1].status)
    /\ IF response[1].json = Undefined
       THEN /\ \E m \in JsonSyntaxErrors(response[1].body) :
                    error' = Some(CatchMessage(Error(m)))
            /\ news' = news
       ELSE news' = JsonValue(response[1].json[1]) /\ error' = error
    /\ apc' = "finally"
    /\ UNCHANGED <<response, loading>>
    /\ UNCHANGED hvars

\* Variant of fetchNews_finally with setLoading(false) at the end of the try block
\* instead of the finally block: it is skipped when an error was caught.
fetchNews_finally_tryOnly ==
    /\ apc = "finally"
    /\ loading' = IF error = Undefined THEN FALSE ELSE loading
    /\ apc' = "settled"
    /\ UNCHANGED <<response, news, error>>
    /\ UNCHANGED hvars

\* finally { setLoading(false) }
fetchNews_finally ==
    /\ apc = "finally"
    /\ loading' = FALSE
    /\ apc' = "settled"
    /\ UNCHANGED <<response, news, error>>
    /\ UNCHANGED hvars

AppNext ==
    \/ fetchNews_start
    \/ fetchNews_response
    \/ fetchNews_rejected
    \/ fetchNews_notOk
    \/ fetchNews_ok
    \/ fetchNews_finally

AppSpec == Init /\ [][AppNext]_vars

(***************************************************************************)
(* Properties.                                                             *)
(***************************************************************************)
Min(S) == CHOOSE m \in S : \A n \in S : m <= n

Range(f) == { f[i] : i \in DOMAIN f }

\* The positions at which the literal p occurs in s.
Occurrences(s, p) == { i \in 1..Len(s) : MatchesAt(s, p, i) }

\* The contents of the item blocks of xml, in document order: a block opens at the
\* first <item> at or after from that has a </item> after it, and closes at the first
\* such </item>.
RECURSIVE LocatedBlocks(_, _)
LocatedBlocks(xml, from) ==
    LET closes == Occurrences(xml, ITEM_CLOSE)
        opens == { i \in Occurrences(xml, ITEM_OPEN) :
                     i >= from /\ \E j \in closes : j >= i + Len(ITEM_OPEN) }
    IN  IF opens = {} THEN <<>>
        ELSE LET i == Min(opens)
                 j == Min({ k \in closes : k >= i + Len(ITEM_OPEN) })
             IN  <<SubSeq(xml, i + Len(ITEM_OPEN), j - 1)>>
                    \o LocatedBlocks(xml, j + Len(ITEM_CLOSE))

NonEmpty(o) == Len(o) = 1 /\ Len(o[1]) > 0

\* The records of those blocks whose title, link and pubDate are all non-empty.
RECURSIVE Emitted(_)
Emitted(blocks) ==
    IF blocks = <<>> THEN <<>>
    ELSE LET b == Head(blocks)
         IN  (IF NonEmpty(title(b)) /\ NonEmpty(link(b)) /\ NonEmpty(pubDate(b))
              THEN <<[title |-> title(b)[1], link |-> link(b)[1],
                      description |-> description(b), pubDate |-> pubDate(b)[1],
                      imageUrl |-> imageUrl(b)]>>
              ELSE <<>>) \o Emitted(Tail(blocks))

\* C1: when parseRSS returns, its result is exactly the records, in document order, of
\* the located item blocks whose title, link and pubDate are all non-empty, whatever
\* their description or image; every other block is dropped without an error, and the
\* result has no more records than there are item blocks.
C1_InclusionRule ==
    hpc = "setHeaders" =>
        LET blocks == LocatedBlocks(xmlText[1], 1)
        IN  /\ newsItems # Undefined
            /\ caught = Undefined
            /\ Len(newsItems[1]) <= Len(blocks)
            /\ newsItems[1] = Emitted(blocks)
            /\ \A i \in 1..Len(newsItems[1]) :
                  /\ newsItems[1][i].title # <<>>
                  /\ newsItems[1][i].link # <<>>
                  /\ newsItems[1][i].pubDate # <<>>

\* A feed of two item blocks of which one is dropped and the other is emitted although
\* it has neither a description nor an image.
C1_Witness ==
    /\ hpc = "setHeaders"
    /\ Len(LocatedBlocks(xmlText[1], 1)) = 2
    /\ Len(newsItems[1]) = 1
    /\ newsItems[1][1].description = <<>>
    /\ newsItems[1][1].imageUrl = Undefined

\* The response a finished invocation has sent is the one handler_response gives for
\* what the upstream answered, and the result of the loop is parseRSS of the text.
SentIsHandlerResponse ==
    /\ hpc = "done" => sent = <<handler_response(upstream[1])>>
    /\ newsItems # Undefined => newsItems[1] = parseRSS(xmlText[1])

BodyIsArray(r) == DOMAIN r.body = {"array"}

BodyIsError(r) == DOMAIN r.body = {"error", "details"}

\* C2: an invocation of handler whose upstream fetch has settled has sent nothing
\* before it is done and exactly one response when it is done: status 200 with the
\* full list of parsed items, or status 500 with one error object {error, details};
\* a 200 and a 500 are never both sent.  Before it is done, the step it is at has
\* what it needs: a response to test and read, a result to send, or an error to report.
C2_ExactlyOneResponse ==
    /\ Len(sent) <= 1
    /\ hpc \notin {"idle", "done"} => sent = <<>>
    /\ hpc \in {"idle", "fetch", "awaitFetch"} => upstream = Undefined
    /\ hpc \in {"checkOk", "text"} => upstream # Undefined /\ ~upstream[1].rejected
    /\ hpc = "send" => newsItems # Undefined /\ caught = Undefined
    /\ hpc = "catch" => caught # Undefined /\ newsItems = Undefined
    /\ hpc = "done" =>
          /\ Len(sent) = 1
          /\ \/ /\ sent[1].status = 200
                /\ BodyIsArray(sent[1])
                /\ sent[1].body.array = Emitted(LocatedBlocks(upstream[1].text, 1))
             \/ /\ sent[1].status = 500
                /\ BodyIsError(sent[1])
                /\ sent[1].body.error = "Failed to fetch or parse RSS feed"

\* A finished invocation that answered 200 with two items.
C2_Witness ==
    /\ hpc = "done"
    /\ sent[1].status = 200
    /\ Len(sent[1].body.array) = 2

UpstreamFailed == upstream # Undefined /\ (upstream[1].rejected \/ ~IsOk(upstream[1].status))

\* C3: when the upstream answers with a non-2xx status, or the fetch fails, handler
\* fetches only once, never calls parseRSS, and answers 500 with the message of the
\* underlying error as details; for a non-2xx answer the details contain the status.
C3_UpstreamFailure ==
    /\ fetches <= 1
    /\ hpc \notin {"idle", "fetch"} => fetches = 1
    /\ UpstreamFailed =>
          /\ parseCalls = 0
          /\ xmlText = Undefined
          /\ hpc \in {"checkOk", "catch", "done"}
          /\ hpc = "done" =>
                /\ sent = <<[status |-> 500, headers |-> sent[1].headers,
                             body |-> [error |-> "Failed to fetch or parse RSS feed",
                                       details |-> caught[1].message]]>>
                /\ upstream[1].rejected => sent[1].body.details = upstream[1].message
                /\ ~upstream[1].rejected =>
                      /\ ToString(upstream[1].status) \in Range(sent[1].body.details)
                      /\ upstream[1].statusText \in Range(sent[1].body.details)

\* The upstream answered 503 and handler answered 500.
C3_Witness ==
    /\ hpc = "done"
    /\ ~upstream[1].rejected
    /\ upstream[1].status = 503
    /\ upstream[1].text # <<>>
    /\ sent[1].status = 500

CacheControl == <<"Cache-Control", "s-maxage=60, stale-while-revalidate=600">>

AllowOrigin == <<"Access-Control-Allow-Origin", "*">>

\* C9 as stated: every response the endpoint sends carries the Cache-Control
\* directive and the Access-Control-Allow-Origin header.
C9_EveryResponse ==
    \A i \in 1..Len(sent) : {CacheControl, AllowOrigin} \subseteq sent[i].headers

\* C9 amended: every status 200 response carries both headers, and both are set
\* before the status and the body are sent.
C9_SuccessResponse ==
    /\ hpc = "send" => {CacheControl, AllowOrigin} \subseteq headers
    /\ \A i \in 1..Len(sent) :
          sent[i].status = 200 => {CacheControl, AllowOrigin} \subseteq sent[i].headers

\* A status 200 response has been sent.
C9_Witness == sent # <<>> /\ sent[1].status = 200 /\ sent[1].headers # {}

\* fetchNews failed: fetch rejected, the response was not ok, or its body was not JSON.
RequestFailed ==
    \/ response = Undefined
    \/ ~IsOk(response[1].status)
    \/ response[1].json = Undefined

\* C10: loading is true until fetchNews settles and false once it has settled; then
\* error is non-null exactly when the request failed or was not ok, and news holds
\* the fetched array when error is null and is untouched otherwise.
C10_LoadingSettles ==
    /\ apc # "settled" => loading = TRUE
    /\ apc = "settled" =>
          /\ loading = FALSE
          /\ error # Undefined <=> RequestFailed
          /\ error # Undefined => news = <<>>
          /\ error = Undefined => news = JsonValue(response[1].json[1])

\* fetchNews settled with a list of two items and no error.
C10_Witness ==
    /\ apc = "settled"
    /\ error = Undefined
    /\ Len(news) = 2
    /\ loading = FALSE

\* The loop of parseRSS has just processed an item block.
InLoop == hpc = "parse" /\ locals # Undefined

\* The number a string of decimal digits denotes, or -1 when it has more than seven
\* digits and so lies beyond the last code point, U+10FFFF.
RECURSIVE DecNumber(_)
DecNumber(ds) ==
    IF Len(StripZeros(ds)) > 7 THEN -1
    ELSE IF ds = <<>> THEN 0
    ELSE 10 * DecNumber(SubSeq(ds, 1, Len(ds) - 1)) + DigitVal(ds[Len(ds)])

\* The character a reference to the code point n denotes; a number that is no code
\* point denotes none.
CodePointChar(n) ==
    IF n < 0 \/ n > 1114111 THEN "no character"
    ELSE IF n < 65536 THEN CodeUnit(n)
    ELSE "U+" \o ToString(n)

IsHexDigit(c) == IsDigit(c) \/ c \in {"a", "b", "c", "d", "e", "f", "A", "B", "C", "D", "E", "F"}

HexVal(c) ==
    IF IsDigit(c) THEN DigitVal(c)
    ELSE CASE c \in {"a", "A"} -> 10 [] c \in {"b", "B"} -> 11 [] c \in {"c", "C"} -> 12
           [] c \in {"d", "D"} -> 13 [] c \in {"e", "E"} -> 14 [] c \in {"f", "F"} -> 15

RECURSIVE HexRun(_, _)
HexRun(s, i) == IF i <= Len(s) /\ IsHexDigit(s[i]) THEN 1 + HexRun(s, i + 1) ELSE 0

RECURSIVE HexNumber(_)
HexNumber(ds) ==
    IF ds = <<>> THEN 0
    ELSE 16 * HexNumber(SubSeq(ds, 1, Len(ds) - 1)) + HexVal(ds[Len(ds)])

\* The length of the decimal reference &#d...d; at the start of s, or 0.
DecRefLen(s) ==
    LET n == IF StartsWith(s, <<"&", "#">>) THEN DigitRun(s, 3) ELSE 0
    IN  IF n > 0 /\ Len(s) >= 3 + n /\ s[3 + n] = ";" THEN 3 + n ELSE 0

\* The length of the hexadecimal reference &#xh...h; at the start of s, or 0.
HexRefLen(s) ==
    LET n == IF StartsWith(s, <<"&", "#", "x">>) \/ StartsWith(s, <<"&", "#", "X">>)
             THEN HexRun(s, 4) ELSE 0
    IN  IF n > 0 /\ Len(s) >= 4 + n /\ s[4 + n] = ";" THEN 4 + n ELSE 0

\* The named references decodeEntities replaces.
NamedOfSource ==
    { <<<<"&","a","m","p",";">>, "&">>, <<<<"&","l","t",";">>, "<">>,
      <<<<"&","g","t",";">>, ">">>, <<<<"&","q","u","o","t",";">>, "\"">> }

\* The five standard named references.
NamedStandard == NamedOfSource \cup { <<<<"&","a","p","o","s",";">>, "'">> }

\* One pass over s from left to right: every decimal reference and every reference
\* of named that starts in s is replaced by its character, and a character a
\* replacement produced is never read again.
RECURSIVE DecodeOnce(_, _)
DecodeOnce(s, named) ==
    IF s = <<>> THEN <<>>
    ELSE LET d == DecRefLen(s)
             ns == { e \in named : StartsWith(s, e[1]) }
         IN  IF d > 0
             THEN <<FromCharCode(SubSeq(s, 3, d - 1))>>
                      \o DecodeOnce(SubSeq(s, d + 1, Len(s)), named)
             ELSE IF ns # {}
             THEN LET e == CHOOSE e \in ns : TRUE
                  IN  <<e[2]>> \o DecodeOnce(SubSeq(s, Len(e[1]) + 1, Len(s)), named)
             ELSE <<Head(s)>> \o DecodeOnce(Tail(s), named)

\* C4: decoding runs once: the decoded title is the title text with each entity
\* reference in it replaced by its character, and no character a replacement produced
\* is decoded again (so &amp;amp; gives &amp; and &amp;lt; gives &lt;).
C4_DecodesOnce ==
    InLoop /\ locals[1].encodedTitle # Undefined =>
        /\ locals[1].title = Some(DecodeOnce(locals[1].encodedTitle[1], NamedOfSource))
        /\ decodeEntities(locals[1].rawDescription)
              = DecodeOnce(locals[1].rawDescription, NamedOfSource)

\* One pass over s that replaces every numeric reference, decimal or hexadecimal, and
\* each of the five standard named references by the character it denotes.
RECURSIVE StandardDecode(_)
StandardDecode(s) ==
    IF s = <<>> THEN <<>>
    ELSE LET d == DecRefLen(s)
             h == HexRefLen(s)
             ns == { e \in NamedStandard : StartsWith(s, e[1]) }
         IN  IF d > 0
             THEN <<CodePointChar(DecNumber(SubSeq(s, 3, d - 1)))>>
                      \o StandardDecode(SubSeq(s, d + 1, Len(s)))
             ELSE IF h > 0
             THEN <<CodePointChar(HexNumber(SubSeq(s, 4, h - 1)))>>
                      \o StandardDecode(SubSeq(s, h + 1, Len(s)))
             ELSE IF ns # {}
             THEN LET e == CHOOSE e \in ns : TRUE
                  IN  <<e[2]>> \o StandardDecode(SubSeq(s, Len(e[1]) + 1, Len(s)))
             ELSE <<Head(s)>> \o StandardDecode(Tail(s))

\* C6: every numeric reference and each of &amp; &lt; &gt; &quot; &apos; in a title is
\* decoded to the character it denotes.  Stated for the titles whose decoded text
\* holds no "&", where decoding once and decoding repeatedly agree.
C6_DecodesAllReferences ==
    InLoop /\ locals[1].encodedTitle # Undefined
           /\ "&" \notin Range(StandardDecode(locals[1].encodedTitle[1])) =>
        locals[1].title = Some(StandardDecode(locals[1].encodedTitle[1]))

\* What parseRSS makes of a title tag, and of a description tag, holding text.
PlainTitle(text) == title(TitleTag(text))

PlainDescription(text) == description(DescriptionTag(text))

\* Two titles are the same for the record: equal, or both missing or empty.
SameTitle(a, b) == (Truthy(a) \/ Truthy(b)) => a = b

\* text without the opening marker of a CDATA envelope.
AfterOpen(text) == SubSeq(text, Len(CDATA_OPEN) + 1, Len(text))

\* text without both markers of a CDATA envelope.
Inner(text) == SubSeq(text, Len(CDATA_OPEN) + 1, Len(text) - Len(CDATA_CLOSE))

\* C5: a title or description in a CDATA envelope gives the same record as its content
\* without the envelope; content that starts with the opening marker and does not end
\* with the closing one loses no character other than the marker.
C5_CdataTransparent ==
    InLoop =>
        LET rt == rawTitle(locals[1].itemContent)
            rd == trimmedDescription(locals[1].itemContent)
        IN  /\ rt # Undefined /\ StartsWith(rt[1], CDATA_OPEN) =>
                  IF EndsWith(rt[1], CDATA_CLOSE)
                  THEN SameTitle(locals[1].title, PlainTitle(Inner(rt[1])))
                  ELSE locals[1].title \in {Some(decodeEntities(rt[1])),
                                            Some(decodeEntities(Trim(AfterOpen(rt[1]))))}
            /\ StartsWith(rd, CDATA_OPEN) =>
                  IF EndsWith(rd, CDATA_CLOSE)
                  THEN locals[1].description = PlainDescription(Inner(rd))
                  ELSE locals[1].description
                          \in {Trim(StripTags(decodeEntities(rd))),
                               Trim(StripTags(decodeEntities(Trim(AfterOpen(rd)))))}

\* The value of the url attribute of the first tag of content that opens with tagOpen,
\* wherever the attribute stands in the tag.
UrlAttribute(content, tagOpen) ==
    LET i == IndexOf(content, tagOpen, 1)
        e == IF i = 0 THEN 0 ELSE IndexOf(content, <<">">>, i)
        k == IF i = 0 THEN 0 ELSE IndexOf(content, <<" ","u","r","l","=","\"">>, i)
        q == IF k = 0 THEN 0 ELSE IndexOf(content, QUOTE, k + 6)
    IN  IF i = 0 \/ k = 0 \/ q = 0 \/ (e # 0 /\ k > e) THEN Undefined
        ELSE Some(SubSeq(content, k + 6, q - 1))

THUMB_TAG == <<"<","m","e","d","i","a",":","t","h","u","m","b","n","a","i","l">>

ENCLOSURE_TAG == <<"<","e","n","c","l","o","s","u","r","e">>

\* C7 as stated: imageUrl is the url attribute of the media:thumbnail tag or of the
\* enclosure tag of the block, and is absent only when the block has neither.
C7_EitherConvention ==
    InLoop =>
        LET t == UrlAttribute(locals[1].itemContent, THUMB_TAG)
            e == UrlAttribute(locals[1].itemContent, ENCLOSURE_TAG)
        IN  locals[1].imageUrl = (IF t # Undefined THEN t ELSE e)

\* The text between the first <media:thumbnail url=" of content that has a double
\* quote after it and the first such quote.
ThumbnailUrl(content) ==
    LET quotes == Occurrences(content, QUOTE)
        starts == { i \in Occurrences(content, THUMB_URL) :
                      \E q \in quotes : q >= i + Len(THUMB_URL) }
    IN  IF starts = {} THEN Undefined
        ELSE LET i == Min(starts)
                 q == Min({ k \in quotes : k >= i + Len(THUMB_URL) })
             IN  Some(SubSeq(content, i + Len(THUMB_URL), q - 1))

\* C7 amended: imageUrl is the text between the first <media:thumbnail url=" of the
\* block and the next double quote, and is absent when the block has no such text,
\* whether or not it has an enclosure tag.
C7_ThumbnailOnly ==
    InLoop =>
        /\ locals[1].imageUrl = ThumbnailUrl(locals[1].itemContent)
        /\ Occurrences(locals[1].itemContent, THUMB_URL) = {} =>
              locals[1].imageUrl = Undefined

\* A block with both tags, whose image is the one of media:thumbnail.
C7_Witness ==
    /\ InLoop
    /\ Occurrences(locals[1].itemContent, ENCLOSURE_TAG) # {}
    /\ locals[1].imageUrl = Some(<<"i", "1">>)
    /\ Len(items) = 1

\* Whether the character at position i of d lies in a tag: some "<" at or before i has
\* no ">" between itself and i, and a ">" stands at i or after it.
InTag(d, i) ==
    /\ \E a \in 1..i : d[a] = "<" /\ \A k \in a..(i - 1) : d[k] # ">"
    /\ \E b \in i..Len(d) : d[b] = ">"

RECURSIVE KeptFrom(_, _)
KeptFrom(d, i) ==
    IF i > Len(d) THEN <<>>
    ELSE (IF InTag(d, i) THEN <<>> ELSE <<d[i]>>) \o KeptFrom(d, i + 1)

\* The characters of d outside every tag, in order.
KeptChars(d) == KeptFrom(d, 1)

BOLD_TEXT == <<"<","b",">","b","o","l","d","<","/","b",">"," ","t","e","x","t">>

\* C8: stripping the decoded description removes exactly the substrings from a "<" to
\* the next ">" and keeps every other character in order; a "<" with no ">" after it
\* removes nothing.  The description is the trimmed result.
C8_StripsCompleteTags ==
    InLoop /\ locals[1].rawDescription # <<>> =>
        LET d == decodeEntities(locals[1].rawDescription)
        IN  /\ StripTags(d) = KeptChars(d)
            /\ locals[1].description = Trim(KeptChars(d))
            /\ (\A a \in 1..Len(d) : d[a] = "<" => \A b \in a..Len(d) : d[b] # ">")
                  => locals[1].description = Trim(d)
            /\ locals[1].rawDescription = BOLD_TEXT
                  => locals[1].description = <<"b","o","l","d"," ","t","e","x","t">>
            /\ locals[1].rawDescription = EXAMPLE_DESCRIPTION
                  => locals[1].description = <<"H","i">>

\* The description <b>bold</b> text has been processed and gave bold text.
C8_Witness ==
    /\ InLoop
    /\ locals[1].rawDescription = BOLD_TEXT
    /\ locals[1].description = <<"b","o","l","d"," ","t","e","x","t">>
    /\ Len(items) = 1

=============================================================================
